---- MODULE Spec2Model ----
(***************************************************************************)
(* Tournament simulation engine of pokemon-tourney-simulator:              *)
(* src/src/utils/simulation.ts (createPlayers, pairPlayers, playMatch,     *)
(* countByDeck, runTournament, runMultipleSimulations) and                 *)
(* src/unnamed/part_001 (calculateTournamentConfig).                       *)
(*                                                                         *)
(* Players are records [id, deck, matchPoints, opponents]; the JavaScript  *)
(* arrays `players` and `day2Players` share the Player objects, so         *)
(* `players` holds the records in array order and `day2Players` holds the  *)
(* ids of the shared records in array order.                               *)
(* Math.random() is a nondeterministic choice of k / RollDen, 0 <= k <     *)
(* RollDen; a shuffle is a nondeterministic choice of a permutation.       *)
(***************************************************************************)
EXTENDS Integers, Sequences, FiniteSets, TLC

VARIABLES
  decks,                 \* argument decks: string[]
  playRates,             \* argument playRates: deck -> percentage
  totalPlayers,          \* argument totalPlayers
  matchupMap,            \* argument matchupMap: <<deck1, deck2>> -> MatchupRow
  config,                \* argument config: TournamentConfig
  pc,                    \* position in createPlayers / runTournament / batch
  players,               \* the trial's Player array
  day2Players,           \* runTournament: ids of the filtered array
  day,                   \* runTournament: 1 in the first loop, 2 in the second
  round,                 \* runTournament: loop variable round
  mpGroups,              \* pairPlayers: match points -> ids of the bracket
  paired,                \* pairPlayers: Set<number> paired
  pairs,                 \* pairPlayers: [player, opponent] ids, in push order
  idx,                   \* pairPlayers: position of `for (const player of players)`
  byes,                  \* history: ids awarded a bye in the current call
  matchNo,               \* runTournament: position of pairs.forEach
  lastMatch,             \* history: the branch and players of the last playMatch
  simResult,             \* runTournament's return value: <<>> or <<results>>
  playerCount,           \* calculateTournamentConfig: argument
  cfgCalls,              \* calculateTournamentConfig: results of successive calls
  numSimulations,        \* runMultipleSimulations: argument numSimulations
  hasOnProgress,         \* runMultipleSimulations: onProgress was passed
  hasShouldCancel,       \* runMultipleSimulations: shouldCancel was passed
  i,                     \* runMultipleSimulations: loop variable i
  completedSimulations,  \* runMultipleSimulations: completedSimulations
  aggregated,            \* runMultipleSimulations: aggregated
  trialsStarted,         \* history: trials that passed the poll of line 289
  cancelledAt,           \* history: i when shouldCancel() returned true, or -1
  trialResults,          \* history: simResult of every completed trial
  progressCalls,         \* history: the arguments of every onProgress call
  otherCall,             \* the locals of a second, suspended call of the batch
  switches,              \* history: hand-overs between the two calls
  isSimulating,          \* App: state isSimulating
  shouldCancelSimulation,\* App: state shouldCancelSimulation
  closureCancel,         \* App: shouldCancelSimulation as handleRunSimulation
                         \* closed over it
  cancelPressedAt        \* history: completed trials at the first Cancel, or -1

vars == <<decks, playRates, totalPlayers, matchupMap, config, pc, players,
          day2Players, day, round, mpGroups, paired, pairs, idx, byes, matchNo,
          lastMatch, simResult, playerCount, cfgCalls, numSimulations,
          hasOnProgress, hasShouldCancel, i, completedSimulations, aggregated,
          trialsStarted, cancelledAt, trialResults, progressCalls, otherCall,
          switches, isSimulating, shouldCancelSimulation, closureCancel,
          cancelPressedAt>>

-----------------------------------------------------------------------------
(* Bounds of the model *)

\* createPlayers alone: largest totalPlayers tried
MaxTotal == 2
\* one trial: largest totalPlayers tried
MaxPlayers == 3
\* a batch: largest totalPlayers and largest numSimulations tried
BatchPlayers == 2
MaxSims == 2
\* the pairing rounds alone: largest pool and number of Day-1 rounds explored
MaxPool == 4
MaxRounds == 2
\* Math.random() takes the values k / RollDen, k in 0 .. RollDen - 1
RollDen == 4
\* calculateTournamentConfig: largest playerCount tried, and calls per input
MaxPlayerCount == 450
MaxCalls == 2
\* the result extraction alone: largest pool with two players off the field
MaxSlicePool == 9

(* Constants of the program *)
WinPoints == 3
TiePoints == 1
ByeOpponent == 0
Day1Rounds == 9
Day2Rounds == 6
Day2Cutoff == 19
Top32Threshold == 410
Top16Threshold == 227

-----------------------------------------------------------------------------
(* Helpers *)

RECURSIVE SumSeq(_)
SumSeq(s) == IF s = <<>> THEN 0 ELSE Head(s) + SumSeq(Tail(s))

Range(s) == {s[k] : k \in DOMAIN s}

\* s without its k-th element
RemoveAt(s, k) == [j \in 1 .. Len(s) - 1 |-> IF j < k THEN s[j] ELSE s[j + 1]]

\* Math.round(n / d) for d > 0: the nearest integer, halves towards +Infinity
MathRound(n, d) == (2 * n + d) \div (2 * d)

\* shuffleArray with line 15 assigning shuffled[i] = shuffled[j] without the
\* swap: position k receives an element of the positions 1 .. k
shuffleArrayOverwrite(array) ==
  {f \in [1 .. Len(array) -> Range(array)] :
     \A k \in 1 .. Len(array) : \E j \in 1 .. k : f[k] = array[j]}

\* shuffleArray: a Fisher-Yates pass can produce every permutation of its input
RECURSIVE shuffleArray(_)
shuffleArray(array) ==
  IF array = <<>> THEN {<<>>}
  ELSE UNION {{<<array[k]>> \o rest : rest \in shuffleArray(RemoveAt(array, k))}
              : k \in 1 .. Len(array)}

-----------------------------------------------------------------------------
(* createPlayers *)

\* lines 30-34: the rounded allocation of every deck
RoundedCounts(ds, rates, total) ==
  [d \in Range(ds) |-> MathRound(total * rates[d], 100)]

Assigned(ds, rates, total) ==
  SumSeq([k \in 1 .. Len(ds) |-> RoundedCounts(ds, rates, total)[ds[k]]])

\* Largest taking the last of the decks with the largest count
LargestLast(ds, counts) ==
  ds[CHOOSE k \in 1 .. Len(ds) :
       /\ \A j \in 1 .. Len(ds) : counts[ds[j]] <= counts[ds[k]]
       /\ \A j \in k + 1 .. Len(ds) : counts[ds[j]] < counts[ds[k]]]

\* lines 38-40: Object.keys in insertion order, stable sort descending, [0]
Largest(ds, counts) ==
  ds[CHOOSE k \in 1 .. Len(ds) :
       /\ \A j \in 1 .. Len(ds) : counts[ds[j]] <= counts[ds[k]]
       /\ \A j \in 1 .. k - 1 : counts[ds[j]] < counts[ds[k]]]

\* lines 27-42: playerCounts after the adjustment; with no deck the adjustment
\* writes NaN under the key "undefined", which no later loop reads
PlayerCounts(ds, rates, total) ==
  LET counts == RoundedCounts(ds, rates, total)
      assigned == Assigned(ds, rates, total)
  IN IF assigned # total /\ ds # <<>>
       THEN [counts EXCEPT ![Largest(ds, counts)] = @ + (total - assigned)]
       ELSE counts

NewPlayer(id, deck) ==
  [id |-> id, deck |-> deck, matchPoints |-> 0, opponents |-> <<>>]

\* lines 45-57: one Player per allocated slot, ids from 1 in deck order; a
\* count below 1 runs the inner loop zero times
RECURSIVE BuildPlayers(_, _, _)
BuildPlayers(ds, counts, nextId) ==
  IF ds = <<>> THEN <<>>
  ELSE LET n == IF counts[Head(ds)] > 0 THEN counts[Head(ds)] ELSE 0
       IN [k \in 1 .. n |-> NewPlayer(nextId + k - 1, Head(ds))]
          \o BuildPlayers(Tail(ds), counts, nextId + n)

\* the set of arrays createPlayers can return
createPlayers(ds, rates, total) ==
  shuffleArray(BuildPlayers(ds, PlayerCounts(ds, rates, total), 1))

-----------------------------------------------------------------------------
(* calculateTournamentConfig *)

\* calculateTournamentConfig with > for >= in the tests of lines 19 and 21
calculateTournamentConfigStrict(n) ==
  [day1Rounds |-> Day1Rounds,
   day2Rounds |-> Day2Rounds,
   day2Cutoff |-> Day2Cutoff,
   topCutSize |-> IF n > Top32Threshold THEN 32
                  ELSE IF n > Top16Threshold THEN 16
                  ELSE 8]

\* part_001 lines 11-33
calculateTournamentConfig(n) ==
  [day1Rounds |-> Day1Rounds,
   day2Rounds |-> Day2Rounds,
   day2Cutoff |-> Day2Cutoff,
   topCutSize |-> IF n >= Top32Threshold THEN 32
                  ELSE IF n >= Top16Threshold THEN 16
                  ELSE 8]

-----------------------------------------------------------------------------
(* Access to the shared Player objects *)

IndexOf(ps, id) == CHOOSE k \in 1 .. Len(ps) : ps[k].id = id
ById(ps, id) == ps[IndexOf(ps, id)]
Ids(ps) == [k \in 1 .. Len(ps) |-> ps[k].id]

AddPoints(p, n) == [p EXCEPT !.matchPoints = @ + n]
PushOpponent(p, id) == [p EXCEPT !.opponents = Append(@, id)]

\* Pool with line 221 calling pairPlayers(players)
PoolEveryone == Ids(players)

\* the array handed to pairPlayers: players on Day 1, day2Players on Day 2
Pool == IF day = 1 THEN Ids(players) ELSE day2Players

-----------------------------------------------------------------------------
(* pairPlayers *)

\* lines 69-81: the brackets by current match points.  Each bracket is kept
\* in pool order: the shuffle only decides which index of the uniform pick of
\* line 107 stands for which candidate, and every candidate can be picked.
GroupByMatchPoints(ps, pool) ==
  [mp \in {ById(ps, pool[k]).matchPoints : k \in 1 .. Len(pool)} |->
     SelectSeq(pool, LAMBDA id : ById(ps, id).matchPoints = mp)]

\* Candidates without the test !paired.has(p.id)
CandidatesAllowPaired(player, group, done) ==
  SelectSeq(group, LAMBDA id : /\ id # player.id
                               /\ id \notin Range(player.opponents))

\* Candidates without the test !player.opponents.includes(p.id)
CandidatesAllowRematch(player, group, done) ==
  SelectSeq(group, LAMBDA id : /\ id \notin done
                               /\ id # player.id)

\* lines 96-103: the valid candidates of one bracket
Candidates(player, group, done) ==
  SelectSeq(group, LAMBDA id : /\ id \notin done
                               /\ id # player.id
                               /\ id \notin Range(player.opponents))

\* OpenBrackets without the test of line 94
OpenBracketsAny(player, groups, done) ==
  {mp \in DOMAIN groups : Candidates(player, groups[mp], done) # <<>>}

\* lines 84, 93-94, 105: the brackets the scan can stop at
OpenBrackets(player, groups, done) ==
  {mp \in DOMAIN groups : /\ mp <= player.matchPoints
                          /\ Candidates(player, groups[mp], done) # <<>>}

\* FirstBracket with the keys of line 84 sorted ascending
FirstBracketAscending(player, groups, done) ==
  CHOOSE mp \in OpenBrackets(player, groups, done) :
    \A other \in OpenBrackets(player, groups, done) : mp <= other

\* lines 84, 93-110: the scan visits the keys in descending order and stops at
\* the first bracket with a candidate
FirstBracket(player, groups, done) ==
  CHOOSE mp \in OpenBrackets(player, groups, done) :
    \A other \in OpenBrackets(player, groups, done) : other <= mp

\* AwardBye without line 119
AwardByeNoSentinel(p) == AddPoints(p, WinPoints)

\* lines 117-119
AwardBye(p) == PushOpponent(AddPoints(p, WinPoints), ByeOpponent)

-----------------------------------------------------------------------------
(* playMatch *)

Rolls == 0 .. RollDen - 1

\* line 135: matchupMap.get(key) || matchupMap.get(reverseKey)
HasMatchup(map, d1, d2) ==
  <<d1, d2>> \in DOMAIN map \/ <<d2, d1>> \in DOMAIN map

\* the row found, when HasMatchup
FindMatchup(map, d1, d2) ==
  IF <<d1, d2>> \in DOMAIN map THEN map[<<d1, d2>>] ELSE map[<<d2, d1>>]

\* CoinFlip with the else of line 141 / 155 lost: p2 always scores
CoinFlipNoElse(p1, p2, roll) ==
  IF 2 * roll < RollDen
    THEN [p1 |-> AddPoints(p1, WinPoints), p2 |-> AddPoints(p2, WinPoints)]
    ELSE [p1 |-> p1, p2 |-> AddPoints(p2, WinPoints)]

\* lines 139-143 and 153-157: Math.random() < 0.5
CoinFlip(p1, p2, roll) ==
  IF 2 * roll < RollDen
    THEN [p1 |-> AddPoints(p1, WinPoints), p2 |-> p2]
    ELSE [p1 |-> p1, p2 |-> AddPoints(p2, WinPoints)]

\* lines 190-192 (and 158-159)
UpdateHistory(r) ==
  [p1 |-> PushOpponent(r.p1, r.p2.id), p2 |-> PushOpponent(r.p2, r.p1.id)]

\* ProbabilityBranch without the isReverse adjustment of lines 164-165
ProbabilityBranchNoReverse(p1, p2, wins, losses, isReverse, tieRoll, winRoll) ==
  LET total == wins + losses
      tieNum == total - (wins + losses)
  IN IF tieRoll * total < tieNum * RollDen
       THEN [p1 |-> AddPoints(p1, TiePoints), p2 |-> AddPoints(p2, TiePoints)]
       ELSE IF winRoll * (wins + losses) < wins * RollDen
              THEN [p1 |-> AddPoints(p1, WinPoints), p2 |-> p2]
              ELSE [p1 |-> p1, p2 |-> AddPoints(p2, WinPoints)]

\* ProbabilityBranch with line 168 as tieRate = 1 - p1WinRate
ProbabilityBranchTieRemainder(p1, p2, wins, losses, isReverse, tieRoll, winRoll) ==
  LET total == wins + losses
      p1Wins == IF isReverse THEN losses ELSE wins
      p2Wins == IF isReverse THEN wins ELSE losses
      tieNum == total - p1Wins
  IN IF tieRoll * total < tieNum * RollDen
       THEN [p1 |-> AddPoints(p1, TiePoints), p2 |-> AddPoints(p2, TiePoints)]
       ELSE IF winRoll * (p1Wins + p2Wins) < p1Wins * RollDen
              THEN [p1 |-> AddPoints(p1, WinPoints), p2 |-> p2]
              ELSE [p1 |-> p1, p2 |-> AddPoints(p2, WinPoints)]

\* lines 164-187.  p1WinRate = p1Wins / total and p2WinRate = p2Wins / total;
\* tieRate = 1 - (p1WinRate + p2WinRate) = (total - p1Wins - p2Wins) / total
\* (doubles give exactly 0 for all integer counts up to 1500 each);
\* the normalised p1WinRate is p1Wins / (p1Wins + p2Wins).
ProbabilityBranch(p1, p2, wins, losses, isReverse, tieRoll, winRoll) ==
  LET total == wins + losses
      p1Wins == IF isReverse THEN losses ELSE wins
      p2Wins == IF isReverse THEN wins ELSE losses
      tieNum == total - (p1Wins + p2Wins)
  IN IF tieRoll * total < tieNum * RollDen
       THEN [p1 |-> AddPoints(p1, TiePoints), p2 |-> AddPoints(p2, TiePoints)]
       ELSE IF winRoll * (p1Wins + p2Wins) < p1Wins * RollDen
              THEN [p1 |-> AddPoints(p1, WinPoints), p2 |-> p2]
              ELSE [p1 |-> p1, p2 |-> AddPoints(p2, WinPoints)]

\* ZeroObservations with the return of line 160 lost: lines 191-192 run too
ZeroObservationsNoReturn(p1, p2, roll) ==
  UpdateHistory(UpdateHistory(CoinFlip(p1, p2, roll)))

\* lines 151-161: a stored row without observations; the branch updates the
\* histories itself and returns
ZeroObservations(p1, p2, roll) == UpdateHistory(CoinFlip(p1, p2, roll))

\* lines 137, 151: which branch resolves the match
MatchPath(p1, p2, map) ==
  LET matchup == FindMatchup(map, p1.deck, p2.deck)
  IN IF p1.deck = p2.deck THEN "mirror"
     ELSE IF ~HasMatchup(map, p1.deck, p2.deck) THEN "nodata"
     ELSE IF matchup.wins + matchup.losses = 0 THEN "zero"
     ELSE "probability"

\* lines 127-193: the two players after the match; roll1 and roll2 are the
\* first and the second Math.random() the call draws
playMatch(p1, p2, map, roll1, roll2) ==
  LET matchup == FindMatchup(map, p1.deck, p2.deck)
  IN IF ~HasMatchup(map, p1.deck, p2.deck) \/ p1.deck = p2.deck
       THEN UpdateHistory(CoinFlip(p1, p2, roll1))
       ELSE IF matchup.wins + matchup.losses = 0
              THEN ZeroObservations(p1, p2, roll1)
              ELSE UpdateHistory(
                     ProbabilityBranch(p1, p2, matchup.wins, matchup.losses,
                                       matchup.deck1 # p1.deck, roll1, roll2))

-----------------------------------------------------------------------------
(* countByDeck and the result extraction of runTournament *)

\* lines 196-202: a count for every deck that occurs
countByDeck(ps) ==
  [d \in {ps[k].deck : k \in 1 .. Len(ps)} |->
     Cardinality({k \in 1 .. Len(ps) : ps[k].deck = d})]

\* InsertByPoints with the comparator a.matchPoints - b.matchPoints
RECURSIVE InsertByPointsAscending(_, _, _)
InsertByPointsAscending(ps, sorted, id) ==
  IF sorted = <<>> THEN <<id>>
  ELSE IF ById(ps, Head(sorted)).matchPoints <= ById(ps, id).matchPoints
         THEN <<Head(sorted)>> \o InsertByPointsAscending(ps, Tail(sorted), id)
         ELSE <<id>> \o sorted

\* line 226: Array.prototype.sort is stable; descending by match points
RECURSIVE InsertByPoints(_, _, _)
InsertByPoints(ps, sorted, id) ==
  IF sorted = <<>> THEN <<id>>
  ELSE IF ById(ps, Head(sorted)).matchPoints >= ById(ps, id).matchPoints
         THEN <<Head(sorted)>> \o InsertByPoints(ps, Tail(sorted), id)
         ELSE <<id>> \o sorted

RECURSIVE SortByPoints(_, _)
SortByPoints(ps, ids) ==
  IF ids = <<>> THEN <<>>
  ELSE InsertByPoints(ps, SortByPoints(ps, SubSeq(ids, 1, Len(ids) - 1)),
                      ids[Len(ids)])

Min(a, b) == IF a <= b THEN a ELSE b

\* slice(0, Math.min(n, length)) of the sorted Day-2 array, as records
TopSlice(ps, sorted, n) ==
  [k \in 1 .. Min(n, Len(sorted)) |-> ById(ps, sorted[k])]

\* lines 229-246; an optional field is <<value>> when set and <<>> when not
ExtractResults(ps, sorted, cfg) ==
  [day1Players |-> countByDeck(ps),
   day2Players |-> countByDeck(TopSlice(ps, sorted, Len(sorted))),
   top8 |-> countByDeck(TopSlice(ps, sorted, 8)),
   top16 |-> IF cfg.topCutSize >= 16
               THEN <<countByDeck(TopSlice(ps, sorted, 16))>> ELSE <<>>,
   top32 |-> IF cfg.topCutSize >= 32
               THEN <<countByDeck(TopSlice(ps, sorted, 32))>> ELSE <<>>]

-----------------------------------------------------------------------------
(* The numbers of the aggregate.  A running sum, an average or a rate is the *)
(* fraction <<numerator, denominator>> in lowest terms; the sums are         *)
(* integers, and a double division of the same two operands gives the same   *)
(* double wherever it is computed, so equal fractions are equal doubles.     *)

RECURSIVE GCD(_, _)
GCD(a, b) == IF b = 0 THEN a ELSE GCD(b, a % b)

Q(n, d) == IF n = 0 THEN <<0, 1>> ELSE <<n \div GCD(n, d), d \div GCD(n, d)>>
QInt(n) == Q(n, 1)
QPlusInt(a, k) == Q(a[1] + k * a[2], a[2])
QDivInt(a, k) == Q(a[1], a[2] * k)
QDiv(a, b) == Q(a[1] * b[2], a[2] * b[1])
QTimesInt(a, k) == Q(a[1] * k, a[2])
QPositive(a) == a[1] > 0

-----------------------------------------------------------------------------
(* runMultipleSimulations: the aggregate *)

ZeroSums(ds) == [d \in Range(ds) |-> QInt(0)]

\* lines 260-278
InitialAggregate(ds, cfg, num) ==
  [numSimulations |-> num,
   day1Counts |-> [d \in Range(ds) |-> 0],
   day2Avg |-> ZeroSums(ds),
   top8Avg |-> ZeroSums(ds),
   top16Avg |-> IF cfg.topCutSize >= 16 THEN <<ZeroSums(ds)>> ELSE <<>>,
   top32Avg |-> IF cfg.topCutSize >= 32 THEN <<ZeroSums(ds)>> ELSE <<>>,
   day2ConversionRate |-> <<>>,
   top8ConversionRate |-> <<>>]

\* AddCounts without the running sum: the snapshot replaces it
AddCountsOverwrite(sums, snapshot) ==
  [d \in DOMAIN sums \cup DOMAIN snapshot |->
     IF d \in DOMAIN snapshot THEN QInt(snapshot[d]) ELSE sums[d]]

\* lines 303-306 (309-312, 316-319, 324-327): for every deck of the snapshot,
\* sums[deck] = (sums[deck] || 0) + snapshot[deck]
AddCounts(sums, snapshot) ==
  [d \in DOMAIN sums \cup DOMAIN snapshot |->
     IF d \in DOMAIN snapshot
       THEN QPlusInt(IF d \in DOMAIN sums THEN sums[d] ELSE QInt(0),
                     snapshot[d])
       ELSE sums[d]]

\* lines 297-328: the aggregate after the trial of index n
Accumulate(agg, res, n) ==
  [agg EXCEPT
     !.day1Counts = IF n = 0 THEN res.day1Players ELSE @,
     !.day2Avg = AddCounts(@, res.day2Players),
     !.top8Avg = AddCounts(@, res.top8),
     !.top16Avg = IF @ # <<>> /\ res.top16 # <<>>
                    THEN <<AddCounts(@[1], res.top16[1])>> ELSE @,
     !.top32Avg = IF @ # <<>> /\ res.top32 # <<>>
                    THEN <<AddCounts(@[1], res.top32[1])>> ELSE @]

\* Day2Conversion as day1Counts / day2Avg * 100, guarded by day2Avg > 0
Day2ConversionInverted(day2Avg, day1Counts, d) ==
  IF d \in DOMAIN day1Counts /\ QPositive(day2Avg[d])
    THEN QTimesInt(QDiv(QInt(day1Counts[d]), day2Avg[d]), 100)
    ELSE QInt(0)

\* lines 355-358 / 385-388: a missing day1Counts entry is undefined, and
\* undefined > 0 is false
Day2Conversion(day2Avg, day1Counts, d) ==
  IF d \in DOMAIN day1Counts /\ day1Counts[d] > 0
    THEN QTimesInt(QDivInt(day2Avg[d], day1Counts[d]), 100)
    ELSE QInt(0)

\* lines 360-363 / 390-393
Top8Conversion(top8Avg, day2Avg, d) ==
  IF QPositive(day2Avg[d])
    THEN QTimesInt(QDiv(top8Avg[d], day2Avg[d]), 100)
    ELSE QInt(0)

\* Averages without the division of lines 346-352: the running sums
AveragesUndivided(sums, ds, n) == [d \in Range(ds) |-> sums[d]]

\* lines 346-352: every deck's running sum divided by currentSimCount
Averages(sums, ds, n) == [d \in Range(ds) |-> QDivInt(sums[d], n)]

\* Intermediate dividing by the requested count, not by currentSimCount
IntermediateRequested(agg, ds, currentSimCount) ==
  LET day2Avg == Averages(agg.day2Avg, ds, agg.numSimulations)
      top8Avg == Averages(agg.top8Avg, ds, agg.numSimulations)
  IN [numSimulations |-> currentSimCount,
      day1Counts |-> agg.day1Counts,
      day2Avg |-> day2Avg,
      top8Avg |-> top8Avg,
      top16Avg |-> IF agg.top16Avg # <<>>
                     THEN <<Averages(agg.top16Avg[1], ds, agg.numSimulations)>>
                     ELSE <<>>,
      top32Avg |-> IF agg.top32Avg # <<>>
                     THEN <<Averages(agg.top32Avg[1], ds, agg.numSimulations)>>
                     ELSE <<>>,
      day2ConversionRate |->
        [d \in Range(ds) |-> Day2Conversion(day2Avg, agg.day1Counts, d)],
      top8ConversionRate |->
        [d \in Range(ds) |-> Top8Conversion(top8Avg, day2Avg, d)]]

\* lines 333-364: the snapshot handed to onProgress
Intermediate(agg, ds, currentSimCount) ==
  LET day2Avg == Averages(agg.day2Avg, ds, currentSimCount)
      top8Avg == Averages(agg.top8Avg, ds, currentSimCount)
  IN [numSimulations |-> currentSimCount,
      day1Counts |-> agg.day1Counts,
      day2Avg |-> day2Avg,
      top8Avg |-> top8Avg,
      top16Avg |-> IF agg.top16Avg # <<>>
                     THEN <<Averages(agg.top16Avg[1], ds, currentSimCount)>>
                     ELSE <<>>,
      top32Avg |-> IF agg.top32Avg # <<>>
                     THEN <<Averages(agg.top32Avg[1], ds, currentSimCount)>>
                     ELSE <<>>,
      day2ConversionRate |->
        [d \in Range(ds) |-> Day2Conversion(day2Avg, agg.day1Counts, d)],
      top8ConversionRate |->
        [d \in Range(ds) |-> Top8Conversion(top8Avg, day2Avg, d)]]

\* every deck of ds divided by n, the other keys as they are
DivideSums(sums, ds, n) ==
  [d \in DOMAIN sums |->
     IF d \in Range(ds) THEN QDivInt(sums[d], n) ELSE sums[d]]

\* FinalAggregate without line 374: the requested count stays, and divides
FinalAggregateRequested(agg, ds, completed) ==
  IF agg.numSimulations > 0
    THEN LET day2Avg == DivideSums(agg.day2Avg, ds, agg.numSimulations)
             top8Avg == DivideSums(agg.top8Avg, ds, agg.numSimulations)
         IN [agg EXCEPT
               !.day2Avg = day2Avg,
               !.top8Avg = top8Avg,
               !.top16Avg = IF @ # <<>>
                              THEN <<DivideSums(@[1], ds, agg.numSimulations)>>
                              ELSE @,
               !.top32Avg = IF @ # <<>>
                              THEN <<DivideSums(@[1], ds, agg.numSimulations)>>
                              ELSE @,
               !.day2ConversionRate =
                 [d \in Range(ds) |->
                    Day2Conversion(day2Avg, agg.day1Counts, d)],
               !.top8ConversionRate =
                 [d \in Range(ds) |-> Top8Conversion(top8Avg, day2Avg, d)]]
    ELSE agg

\* 0 / 0 in double arithmetic
NaN == <<0, 0>>

\* FinalAggregate without the test of line 377: with no completed trial
\* every division is 0 / 0
FinalAggregateUnguarded(agg, ds, completed) ==
  LET divide(sums) ==
        [d \in DOMAIN sums |->
           IF d \in Range(ds)
             THEN (IF completed = 0 THEN NaN ELSE QDivInt(sums[d], completed))
             ELSE sums[d]]
      day2Avg == divide(agg.day2Avg)
      top8Avg == divide(agg.top8Avg)
  IN [agg EXCEPT
        !.numSimulations = completed,
        !.day2Avg = day2Avg,
        !.top8Avg = top8Avg,
        !.top16Avg = IF @ # <<>> THEN <<divide(@[1])>> ELSE @,
        !.top32Avg = IF @ # <<>> THEN <<divide(@[1])>> ELSE @,
        !.day2ConversionRate =
          [d \in Range(ds) |->
             IF completed = 0 THEN QInt(0)
             ELSE Day2Conversion(day2Avg, agg.day1Counts, d)],
        !.top8ConversionRate =
          [d \in Range(ds) |->
             IF completed = 0 THEN QInt(0)
             ELSE Top8Conversion(top8Avg, day2Avg, d)]]

\* lines 374-395: the aggregate that is returned
FinalAggregate(agg, ds, completed) ==
  IF completed > 0
    THEN LET day2Avg == DivideSums(agg.day2Avg, ds, completed)
             top8Avg == DivideSums(agg.top8Avg, ds, completed)
         IN [agg EXCEPT
               !.numSimulations = completed,
               !.day2Avg = day2Avg,
               !.top8Avg = top8Avg,
               !.top16Avg = IF @ # <<>>
                              THEN <<DivideSums(@[1], ds, completed)>> ELSE @,
               !.top32Avg = IF @ # <<>>
                              THEN <<DivideSums(@[1], ds, completed)>> ELSE @,
               !.day2ConversionRate =
                 [d \in Range(ds) |->
                    Day2Conversion(day2Avg, agg.day1Counts, d)],
               !.top8ConversionRate =
                 [d \in Range(ds) |-> Top8Conversion(top8Avg, day2Avg, d)]]
    ELSE [agg EXCEPT !.numSimulations = completed]

-----------------------------------------------------------------------------
(* The inputs of one trial *)

DeckList == <<"A", "B">>

Row(d1, d2, w, l) == [deck1 |-> d1, deck2 |-> d2, wins |-> w, losses |-> l]

\* the map of App: key "deck1|deck2" -> row.  No data; a row that deck A
\* always wins; a row without observations; a row with both outcomes.
MatchupMaps ==
  { <<>>,
    (<<"A", "B">> :> Row("A", "B", 2, 0)),
    (<<"A", "B">> :> Row("A", "B", 0, 0)),
    (<<"B", "A">> :> Row("B", "A", 3, 1)) }

EvenRates == [d \in Range(DeckList) |-> 50]

NoGroups == <<>>

\* the locals of pairPlayers and of the round, outside a call
RoundIdle ==
  /\ mpGroups = NoGroups
  /\ paired = {}
  /\ pairs = <<>>
  /\ idx = 0
  /\ byes = {}
  /\ matchNo = 0

ConfigIdle ==
  /\ playerCount = 0
  /\ cfgCalls = <<>>

\* App is mounted and no simulation was asked for
AppIdle ==
  /\ isSimulating = FALSE
  /\ shouldCancelSimulation = FALSE
  /\ closureCancel = FALSE
  /\ cancelPressedAt = -1

NoMatch == [p1 |-> 0, p2 |-> 0, path |-> "none"]

\* there is no second call
NoBatch == [pc |-> "none"]

\* no batch is running
BatchIdle ==
  /\ otherCall = NoBatch
  /\ switches = 0
  /\ numSimulations = 0
  /\ hasOnProgress = FALSE
  /\ hasShouldCancel = FALSE
  /\ i = 0
  /\ completedSimulations = 0
  /\ aggregated = InitialAggregate(<<>>, calculateTournamentConfig(0), 0)
  /\ trialsStarted = 0
  /\ cancelledAt = -1
  /\ trialResults = <<>>
  /\ progressCalls = <<>>

TrialIdle ==
  /\ players = <<>>
  /\ day2Players = <<>>
  /\ day = 1
  /\ round = 0
  /\ RoundIdle
  /\ lastMatch = NoMatch
  /\ simResult = <<>>

Init ==
  /\ decks = DeckList
  /\ playRates = EvenRates
  /\ totalPlayers \in 1 .. MaxPlayers
  /\ matchupMap \in MatchupMaps
  /\ config = calculateTournamentConfig(totalPlayers)
  /\ pc = "create"
  /\ TrialIdle
  /\ ConfigIdle
  /\ AppIdle
  /\ BatchIdle

inputVars == <<decks, playRates, totalPlayers, matchupMap, config>>
configVars == <<playerCount, cfgCalls>>
appVars ==
  <<isSimulating, shouldCancelSimulation, closureCancel, cancelPressedAt>>
otherVars == <<otherCall, switches>>
roundVars == <<mpGroups, paired, pairs, idx, byes, matchNo>>
batchVars == <<numSimulations, hasOnProgress, hasShouldCancel, i,
               completedSimulations, aggregated, trialsStarted, cancelledAt,
               trialResults, progressCalls>>

-----------------------------------------------------------------------------
(* One trial: createPlayers, then runTournament *)

\* lines 293-294: the trial's players, and the entry of runTournament
CreatePlayers ==
  /\ pc = "create"
  /\ players' \in createPlayers(decks, playRates, totalPlayers)
  /\ day2Players' = <<>>
  /\ day' = 1
  /\ round' = 0
  /\ lastMatch' = NoMatch
  /\ simResult' = <<>>
  /\ pc' = "round"
  /\ UNCHANGED <<inputVars, appVars, configVars, otherVars, batchVars, roundVars>>

RoundsOf(d) == IF d = 1 THEN config.day1Rounds ELSE config.day2Rounds

\* BeginRound with pairPlayers reading players[0].matchPoints before its
\* loops: a TypeError on an empty array
BeginRoundFirstPlayer ==
  /\ pc = "round"
  /\ round < RoundsOf(day)
  /\ mpGroups' = GroupByMatchPoints(players, Pool)
  /\ paired' = {}
  /\ pairs' = <<>>
  /\ byes' = {}
  /\ idx' = 1
  /\ matchNo' = 1
  /\ pc' = IF Pool = <<>> THEN "error" ELSE "pair"
  /\ UNCHANGED <<inputVars, appVars, configVars, otherVars, batchVars, players,
                 day2Players, day, round,
                 lastMatch, simResult>>

\* lines 211-212 / 220-221 and 65-84: the loop test, the call of pairPlayers
\* and its grouping
BeginRound ==
  /\ pc = "round"
  /\ round < RoundsOf(day)
  /\ mpGroups' = GroupByMatchPoints(players, Pool)
  /\ paired' = {}
  /\ pairs' = <<>>
  /\ byes' = {}
  /\ idx' = 1
  /\ matchNo' = 1
  /\ pc' = IF Pool = <<>> THEN "play" ELSE "pair"
  /\ UNCHANGED <<inputVars, appVars, configVars, otherVars, batchVars, players,
                 day2Players, day, round,
                 lastMatch, simResult>>

\* after the body of the for loop of line 87
AfterPairStep ==
  /\ idx' = idx + 1
  /\ pc' = IF idx = Len(Pool) THEN "play" ELSE "pair"
  /\ UNCHANGED <<inputVars, appVars, configVars, otherVars, batchVars, day2Players,
                 day, round, mpGroups,
                 matchNo, lastMatch, simResult>>

\* line 88: the player is already paired
PairSkip ==
  /\ pc = "pair"
  /\ Pool[idx] \in paired
  /\ UNCHANGED <<players, paired, pairs, byes>>
  /\ AfterPairStep

\* lines 91-115: an opponent from the first bracket with a valid candidate
PairOpponent ==
  /\ pc = "pair"
  /\ Pool[idx] \notin paired
  /\ LET player == ById(players, Pool[idx])
     IN /\ OpenBrackets(player, mpGroups, paired) # {}
        /\ LET candidates ==
                 Candidates(player,
                            mpGroups[FirstBracket(player, mpGroups, paired)],
                            paired)
           IN \E k \in 1 .. Len(candidates) :
                /\ pairs' = Append(pairs, <<player.id, candidates[k]>>)
                /\ paired' = paired \cup {player.id, candidates[k]}
  /\ UNCHANGED <<players, byes>>
  /\ AfterPairStep

\* lines 116-120: no bracket has a valid candidate
PairBye ==
  /\ pc = "pair"
  /\ Pool[idx] \notin paired
  /\ LET player == ById(players, Pool[idx])
     IN /\ OpenBrackets(player, mpGroups, paired) = {}
        /\ players' = [players EXCEPT ![IndexOf(players, player.id)] =
                                          AwardBye(player)]
        /\ byes' = byes \cup {player.id}
  /\ UNCHANGED <<paired, pairs>>
  /\ AfterPairStep

\* lines 213 / 222: playMatch on the next pair
PlayMatch ==
  /\ pc = "play"
  /\ matchNo <= Len(pairs)
  /\ LET p1 == ById(players, pairs[matchNo][1])
         p2 == ById(players, pairs[matchNo][2])
     IN /\ \E roll1, roll2 \in Rolls :
             LET r == playMatch(p1, p2, matchupMap, roll1, roll2)
             IN players' = [players EXCEPT
                              ![IndexOf(players, p1.id)] = r.p1,
                              ![IndexOf(players, p2.id)] = r.p2]
        /\ lastMatch' = [p1 |-> p1.id, p2 |-> p2.id,
                         path |-> MatchPath(p1, p2, matchupMap)]
  /\ matchNo' = matchNo + 1
  /\ UNCHANGED <<inputVars, appVars, configVars, otherVars, batchVars, pc, day2Players,
                 day, round, mpGroups,
                 paired, pairs, idx, byes, simResult>>

\* the end of the loop body of lines 211-214 / 220-223
EndRound ==
  /\ pc = "play"
  /\ matchNo > Len(pairs)
  /\ round' = round + 1
  /\ pc' = "round"
  /\ mpGroups' = NoGroups
  /\ paired' = {}
  /\ pairs' = <<>>
  /\ idx' = 0
  /\ byes' = {}
  /\ matchNo' = 0
  /\ UNCHANGED <<inputVars, appVars, configVars, otherVars, batchVars, players,
                 day2Players, day, lastMatch,
                 simResult>>

\* line 217
FilterDay2 ==
  /\ pc = "round"
  /\ day = 1
  /\ round >= config.day1Rounds
  /\ day2Players' = SelectSeq(Ids(players),
                              LAMBDA id : ById(players, id).matchPoints
                                            >= config.day2Cutoff)
  /\ day' = 2
  /\ round' = 0
  /\ UNCHANGED <<inputVars, appVars, configVars, otherVars, batchVars, pc, players,
                 roundVars, lastMatch,
                 simResult>>

\* lines 226-246
ExtractTrial ==
  /\ pc = "round"
  /\ day = 2
  /\ round >= config.day2Rounds
  /\ day2Players' = SortByPoints(players, day2Players)
  /\ simResult' = <<ExtractResults(players, day2Players', config)>>
  /\ pc' = "returned"
  /\ UNCHANGED <<inputVars, appVars, configVars, otherVars, batchVars, players, day,
                 round, roundVars,
                 lastMatch>>

RunTournament ==
  \/ BeginRound
  \/ PairSkip
  \/ PairOpponent
  \/ PairBye
  \/ PlayMatch
  \/ EndRound
  \/ FilterDay2
  \/ ExtractTrial

Next ==
  \/ CreatePlayers
  \/ RunTournament

Spec == Init /\ [][Next]_vars

-----------------------------------------------------------------------------
(* The first MaxRounds rounds of Day 1 on larger pools.  Without matchup    *)
(* data every match can go either way, so every pool a stored row allows is *)
(* reached.                                                                 *)

InitPairing ==
  /\ decks = DeckList
  /\ playRates = EvenRates
  /\ totalPlayers \in 1 .. MaxPool
  /\ matchupMap = <<>>
  /\ config = calculateTournamentConfig(totalPlayers)
  /\ pc = "create"
  /\ TrialIdle
  /\ ConfigIdle
  /\ AppIdle
  /\ BatchIdle

NextPairing ==
  \/ CreatePlayers
  \/ (round < MaxRounds /\ BeginRound)
  \/ PairSkip
  \/ PairOpponent
  \/ PairBye
  \/ PlayMatch
  \/ EndRound

SpecPairing == InitPairing /\ [][NextPairing]_vars

-----------------------------------------------------------------------------
(* Claims about one trial *)

Qualified(id) == id \in Range(day2Players)

MatchPending == pc = "play" /\ matchNo <= Len(pairs)

\* the two players of the match that the next step resolves
PendingP1 == IndexOf(players, pairs[matchNo][1])
PendingP2 == IndexOf(players, pairs[matchNo][2])

Gain(k) == players'[k].matchPoints - players[k].matchPoints

\* C2: between rounds every player of the pool has one history entry per
\* completed round, and when the trial returns a non-qualifier has
\* day1Rounds entries and a Day-2 qualifier day1Rounds + day2Rounds
C2_HistoryLength ==
  /\ pc = "round" =>
       \A k \in 1 .. Len(players) :
         Len(players[k].opponents) =
           IF day = 1 THEN round
           ELSE config.day1Rounds
                + (IF Qualified(players[k].id) THEN round ELSE 0)
  /\ pc = "returned" =>
       \A k \in 1 .. Len(players) :
         Len(players[k].opponents) =
           IF Qualified(players[k].id)
             THEN config.day1Rounds + config.day2Rounds
             ELSE config.day1Rounds

\* C3: the pairs of one pairPlayers call are pairwise disjoint and no pair
\* holds the same player twice
C3_PairsDisjoint ==
  \A m, n \in 1 .. Len(pairs) :
    /\ pairs[m][1] # pairs[m][2]
    /\ m # n => Range(pairs[m]) \cap Range(pairs[n]) = {}

\* a call has returned two pairs
C3_Witness == pc = "play" /\ Len(pairs) >= 2

\* C4: no two players meet twice in a trial: a pair that pairPlayers returned
\* and that has not been played yet holds two players absent from each
\* other's history, and no history names an opponent twice
C4_NoRematch ==
  /\ \A m \in 1 .. Len(pairs) :
       (pc = "pair" \/ m >= matchNo) =>
         /\ pairs[m][2] \notin Range(ById(players, pairs[m][1]).opponents)
         /\ pairs[m][1] \notin Range(ById(players, pairs[m][2]).opponents)
  /\ \A k \in 1 .. Len(players) :
       \A m, n \in 1 .. Len(players[k].opponents) :
         (m # n /\ players[k].opponents[m] = players[k].opponents[n])
           => players[k].opponents[m] = ByeOpponent

\* a pair is formed by a player who has already met somebody else
C4_Witness ==
  /\ MatchPending
  /\ \E id \in Range(ById(players, pairs[matchNo][1]).opponents) :
       id # ByeOpponent

\* C5: a playMatch call gives 3-0, 0-3 or 1-1 and changes nobody else's
\* points; with equal decks, no row for either ordering or a row with
\* wins + losses = 0 it gives 3-0 or 0-3
C5_MatchOutcomes ==
  [][MatchPending =>
       LET p1 == players[PendingP1]
           p2 == players[PendingP2]
           key == <<p1.deck, p2.deck>>
           reverseKey == <<p2.deck, p1.deck>>
           coin == \/ p1.deck = p2.deck
                   \/ (key \notin DOMAIN matchupMap
                       /\ reverseKey \notin DOMAIN matchupMap)
                   \/ (key \in DOMAIN matchupMap
                       /\ matchupMap[key].wins + matchupMap[key].losses = 0)
                   \/ (key \notin DOMAIN matchupMap
                       /\ reverseKey \in DOMAIN matchupMap
                       /\ matchupMap[reverseKey].wins
                          + matchupMap[reverseKey].losses = 0)
           gains == <<Gain(PendingP1), Gain(PendingP2)>>
       IN /\ gains \in {<<3, 0>>, <<0, 3>>, <<1, 1>>}
          /\ coin => gains \in {<<3, 0>>, <<0, 3>>}
          /\ \A k \in 1 .. Len(players) :
               k \notin {PendingP1, PendingP2} => Gain(k) = 0]_vars

\* a match was resolved from a row that has observations
C5_Witness == lastMatch.path = "probability"

\* C6: on every path a playMatch call appends p2.id to p1.opponents and
\* p1.id to p2.opponents, once each, and changes no other history
C6_HistoryAppended ==
  [][MatchPending =>
       /\ players'[PendingP1].opponents =
            Append(players[PendingP1].opponents, players[PendingP2].id)
       /\ players'[PendingP2].opponents =
            Append(players[PendingP2].opponents, players[PendingP1].id)
       /\ \A k \in 1 .. Len(players) :
            k \notin {PendingP1, PendingP2}
              => players'[k].opponents = players[k].opponents]_vars

\* a match was resolved from a row without observations
C6_Witness == lastMatch.path = "zero"

\* C7: with a row of wins > 0 and losses = 0 the player holding the row's
\* deck1 scores the 3 points, whether the row is stored under (p1.deck,
\* p2.deck) or only under (p2.deck, p1.deck)
C7_RowPerspective ==
  [][MatchPending =>
       LET p1 == players[PendingP1]
           p2 == players[PendingP2]
           key == <<p1.deck, p2.deck>>
           reverseKey == <<p2.deck, p1.deck>>
       IN /\ (/\ p1.deck # p2.deck
              /\ key \in DOMAIN matchupMap
              /\ matchupMap[key].wins > 0
              /\ matchupMap[key].losses = 0)
               => (Gain(PendingP1) = 3 /\ Gain(PendingP2) = 0)
          /\ (/\ p1.deck # p2.deck
              /\ key \notin DOMAIN matchupMap
              /\ reverseKey \in DOMAIN matchupMap
              /\ matchupMap[reverseKey].wins > 0
              /\ matchupMap[reverseKey].losses = 0)
               => (Gain(PendingP1) = 0 /\ Gain(PendingP2) = 3)]_vars

\* the holder of deck1 was passed as p2 and the row gave it every game
C7_Witness ==
  /\ lastMatch.path = "probability"
  /\ LET p1 == ById(players, lastMatch.p1)
         p2 == ById(players, lastMatch.p2)
     IN /\ <<p1.deck, p2.deck>> \notin DOMAIN matchupMap
        /\ <<p2.deck, p1.deck>> \in DOMAIN matchupMap
        /\ matchupMap[<<p2.deck, p1.deck>>].wins > 0
        /\ matchupMap[<<p2.deck, p1.deck>>].losses = 0
        /\ p2.opponents[Len(p2.opponents)] = p1.id

-----------------------------------------------------------------------------
(* createPlayers on its own, over deck lists, play rates and entrant counts *)

DeckLists ==
  {<<"A">>, <<"A", "B">>, <<"A", "B", "C">>, <<"A", "B", "C", "D">>}

\* percentages; a mapping need not sum to 100
RateValues == {0, 25, 50}

InitCreate ==
  /\ decks \in DeckLists
  /\ playRates \in [Range(decks) -> RateValues]
  /\ totalPlayers \in 1 .. MaxTotal
  /\ matchupMap = <<>>
  /\ config = calculateTournamentConfig(totalPlayers)
  /\ pc = "create"
  /\ TrialIdle
  /\ ConfigIdle
  /\ AppIdle
  /\ BatchIdle

NextCreate == CreatePlayers

SpecCreate == InitCreate /\ [][NextCreate]_vars

\* C1: createPlayers returns totalPlayers Player records, for every deck
\* list, every play-rate mapping and every positive totalPlayers
C1_PlayerCount == pc = "round" => Len(players) = totalPlayers

-----------------------------------------------------------------------------
(* calculateTournamentConfig on its own: MaxCalls calls for each playerCount *)

InitConfig ==
  /\ decks = <<>>
  /\ playRates = <<>>
  /\ totalPlayers = 0
  /\ matchupMap = <<>>
  /\ config = calculateTournamentConfig(0)
  /\ pc = "config"
  /\ TrialIdle
  /\ playerCount \in 0 .. MaxPlayerCount
  /\ cfgCalls = <<>>
  /\ BatchIdle
  /\ AppIdle

CalculateConfig ==
  /\ pc = "config"
  /\ Len(cfgCalls) < MaxCalls
  /\ cfgCalls' = Append(cfgCalls, calculateTournamentConfig(playerCount))
  /\ UNCHANGED <<inputVars, appVars, batchVars, otherVars, pc, players, day2Players,
                 day, round,
                 roundVars, lastMatch, simResult, playerCount>>

NextConfig == CalculateConfig

SpecConfig == InitConfig /\ [][NextConfig]_vars

\* C8: every call of calculateTournamentConfig returns day1Rounds 9,
\* day2Rounds 6, day2Cutoff 19 and topCutSize 32 from 410 players, 16 from
\* 227 to 409, 8 below; so do two calls with the same playerCount
C8_ConfigValues ==
  \A k \in 1 .. Len(cfgCalls) :
    cfgCalls[k] = [day1Rounds |-> 9,
                   day2Rounds |-> 6,
                   day2Cutoff |-> 19,
                   topCutSize |-> IF playerCount >= 410 THEN 32
                                  ELSE IF playerCount >= 227 THEN 16
                                  ELSE 8]

\* the function was called twice at a threshold
C8_Witness == Len(cfgCalls) >= 2 /\ playerCount \in {227, 410}

-----------------------------------------------------------------------------
(* runMultipleSimulations: a batch of trials *)

trialVars == <<players, day2Players, day, round, roundVars, lastMatch,
               simResult>>

InitBatch ==
  /\ decks \in {<<>>, DeckList}
  /\ playRates = [d \in Range(decks) |-> 50]
  /\ totalPlayers \in 1 .. BatchPlayers
  /\ matchupMap = (<<"B", "A">> :> Row("B", "A", 3, 1))
  /\ config \in {calculateTournamentConfig(n) :
                   n \in {totalPlayers, Top16Threshold, Top32Threshold}}
  /\ numSimulations \in 0 .. MaxSims
  /\ hasOnProgress \in BOOLEAN
  /\ hasShouldCancel \in BOOLEAN
  /\ i = 0
  /\ completedSimulations = 0
  /\ aggregated = InitialAggregate(decks, config, numSimulations)
  /\ trialsStarted = 0
  /\ cancelledAt = -1
  /\ trialResults = <<>>
  /\ progressCalls = <<>>
  /\ otherCall = NoBatch
  /\ switches = 0
  /\ pc = "loop"
  /\ TrialIdle
  /\ ConfigIdle
  /\ AppIdle

\* lines 287-291: shouldCancel() returned true
CancelBatch ==
  /\ pc = "loop"
  /\ i < numSimulations
  /\ hasShouldCancel
  /\ cancelledAt' = i
  /\ pc' = "finish"
  /\ UNCHANGED <<inputVars, appVars, configVars, otherVars, trialVars, numSimulations,
                 hasOnProgress, hasShouldCancel, i, completedSimulations,
                 aggregated, trialsStarted, trialResults, progressCalls>>

\* lines 287-293: no shouldCancel, or it returned false; the trial starts
StartTrial ==
  /\ pc = "loop"
  /\ i < numSimulations
  /\ trialsStarted' = trialsStarted + 1
  /\ pc' = "create"
  /\ UNCHANGED <<inputVars, appVars, configVars, otherVars, trialVars, numSimulations,
                 hasOnProgress, hasShouldCancel, i, completedSimulations,
                 aggregated, cancelledAt, trialResults, progressCalls>>

\* line 287: the loop test fails
LoopExit ==
  /\ pc = "loop"
  /\ i >= numSimulations
  /\ pc' = "finish"
  /\ UNCHANGED <<inputVars, appVars, configVars, otherVars, trialVars, batchVars>>

\* lines 295-370: the trial has returned; count it, add its snapshots, report
\* progress, and give the browser the turn
AggregateTrial ==
  /\ pc = "returned"
  /\ completedSimulations' = completedSimulations + 1
  /\ aggregated' = Accumulate(aggregated, simResult[1], i)
  /\ progressCalls' =
       IF hasOnProgress
         THEN Append(progressCalls,
                     [current |-> i + 1,
                      total |-> numSimulations,
                      intermediate |-> Intermediate(aggregated', decks, i + 1)])
         ELSE progressCalls
  /\ trialResults' = Append(trialResults, simResult[1])
  /\ pc' = "yield"
  /\ UNCHANGED <<inputVars, appVars, configVars, otherVars, trialVars, numSimulations,
                 hasOnProgress, hasShouldCancel, i, trialsStarted,
                 cancelledAt>>

\* lines 370, 287: the timer fires and the loop goes on with i++
ResumeBatch ==
  /\ pc = "yield"
  /\ i' = i + 1
  /\ pc' = "loop"
  /\ UNCHANGED <<inputVars, appVars, configVars, otherVars, trialVars, numSimulations,
                 hasOnProgress, hasShouldCancel, completedSimulations,
                 aggregated, trialsStarted, cancelledAt, trialResults,
                 progressCalls>>

\* lines 374-397
FinishBatch ==
  /\ pc = "finish"
  /\ aggregated' = FinalAggregate(aggregated, decks, completedSimulations)
  /\ pc' = "done"
  /\ UNCHANGED <<inputVars, appVars, configVars, otherVars, trialVars, numSimulations,
                 hasOnProgress, hasShouldCancel, i, completedSimulations,
                 trialsStarted, cancelledAt, trialResults, progressCalls>>

NextBatch ==
  \/ CancelBatch
  \/ StartTrial
  \/ LoopExit
  \/ CreatePlayers
  \/ RunTournament
  \/ AggregateTrial
  \/ ResumeBatch
  \/ FinishBatch

SpecBatch == InitBatch /\ [][NextBatch]_vars

-----------------------------------------------------------------------------
(* Claims about a batch *)

\* a deck without an entry in a snapshot counts 0
SnapshotCount(snapshot, d) == IF d \in DOMAIN snapshot THEN snapshot[d] ELSE 0

\* the snapshot `field` of the t-th completed trial
TrialSnapshot(t, field) ==
  CASE field = "day2" -> trialResults[t].day2Players
    [] field = "top8" -> trialResults[t].top8
    [] field = "top16" -> trialResults[t].top16[1]
    [] field = "top32" -> trialResults[t].top32[1]

\* the deck's count summed over the first n completed trials
RECURSIVE TotalCount(_, _, _)
TotalCount(n, field, d) ==
  IF n = 0 THEN 0
  ELSE TotalCount(n - 1, field, d) + SnapshotCount(TrialSnapshot(n, field), d)

\* the fraction avg is the deck's mean count over the first n trials, n > 0
IsMean(avg, n, field, d) == avg[1] * n = TotalCount(n, field, d) * avg[2]

\* every average of the returned aggregate is the mean over the first n
\* completed trials (0 when n = 0)
AveragesOver(n) ==
  \A d \in Range(decks) :
    IF n = 0
      THEN /\ aggregated.day2Avg[d] = <<0, 1>>
           /\ aggregated.top8Avg[d] = <<0, 1>>
           /\ aggregated.top16Avg # <<>> => aggregated.top16Avg[1][d] = <<0, 1>>
           /\ aggregated.top32Avg # <<>> => aggregated.top32Avg[1][d] = <<0, 1>>
      ELSE /\ IsMean(aggregated.day2Avg[d], n, "day2", d)
           /\ IsMean(aggregated.top8Avg[d], n, "top8", d)
           /\ aggregated.top16Avg # <<>>
                => IsMean(aggregated.top16Avg[1][d], n, "top16", d)
           /\ aggregated.top32Avg # <<>>
                => IsMean(aggregated.top32Avg[1][d], n, "top32", d)

\* C9: once shouldCancel() has returned true at the poll before trial n, no
\* trial of index >= n is started, the batch returns numSimulations = n and
\* averages over exactly the n completed trials; and every trial that was
\* started has been aggregated when the loop is left
C9_Cancellation ==
  /\ cancelledAt >= 0 =>
       /\ pc \in {"finish", "done"}
       /\ trialsStarted = cancelledAt
       /\ Len(trialResults) = cancelledAt
       /\ pc = "done" =>
            /\ aggregated.numSimulations = cancelledAt
            /\ AveragesOver(cancelledAt)
  /\ pc \in {"finish", "done"} =>
       /\ trialsStarted = completedSimulations
       /\ trialsStarted = Len(trialResults)

\* a batch of two requested trials was cancelled after the first and returned
C9_Witness ==
  /\ pc = "done"
  /\ cancelledAt = 1
  /\ numSimulations = 2
  /\ \E d \in Range(decks) : aggregated.day2Avg[d][1] > 0

\* C10: a batch that completed K >= 1 trials returns, for every deck of the
\* list, day2Avg, top8Avg (and top16Avg, top32Avg when present) equal to the
\* deck's counts summed over those K trials and divided by K
C10_Averages ==
  (pc = "done" /\ completedSimulations >= 1) =>
    /\ Len(trialResults) = completedSimulations
    /\ AveragesOver(completedSimulations)

\* two trials were averaged, with top-16 and top-32 sums, one deck present
\* in the snapshots and one absent from them
C10_Witness ==
  /\ pc = "done"
  /\ completedSimulations >= 2
  /\ aggregated.top16Avg # <<>>
  /\ aggregated.top32Avg # <<>>
  /\ \E d \in Range(decks) : aggregated.day2Avg[d][1] > 0
  /\ \E d \in Range(decks) : d \notin DOMAIN trialResults[1].day2Players

\* the averages of a progress snapshot are the means over the first n trials
SnapshotIsMean(snapshot, n) ==
  \A d \in Range(decks) :
    /\ IsMean(snapshot.day2Avg[d], n, "day2", d)
    /\ IsMean(snapshot.top8Avg[d], n, "top8", d)
    /\ snapshot.top16Avg # <<>> => IsMean(snapshot.top16Avg[1][d], n, "top16", d)
    /\ snapshot.top32Avg # <<>> => IsMean(snapshot.top32Avg[1][d], n, "top32", d)

\* C11: with a progress callback there is one invocation per completed trial
\* and none without one; the k-th invocation reports current = k, total = the
\* requested count and a snapshot with numSimulations = k whose averages are
\* the sums over the first k trials divided by k
C11_Progress ==
  /\ Len(progressCalls) = (IF hasOnProgress THEN completedSimulations ELSE 0)
  /\ completedSimulations = Len(trialResults)
  /\ \A k \in 1 .. Len(progressCalls) :
       /\ progressCalls[k].current = k
       /\ progressCalls[k].total = numSimulations
       /\ progressCalls[k].intermediate.numSimulations = k
       /\ progressCalls[k].intermediate.top16Avg # <<>>
            <=> config.topCutSize >= 16
       /\ progressCalls[k].intermediate.top32Avg # <<>>
            <=> config.topCutSize >= 32
       /\ SnapshotIsMean(progressCalls[k].intermediate, k)

\* the callback was invoked a second time, with a snapshot that holds players
C11_Witness ==
  /\ Len(progressCalls) >= 2
  /\ \E d \in Range(decks) : progressCalls[2].intermediate.day2Avg[d][1] > 0

\* C12: a batch that completed no trial, cancelled at the first poll or asked
\* for 0 trials, returns numSimulations = 0 and every output as lines 260-278
\* initialized it: 0 for every deck, nothing divided
C12_ZeroTrials ==
  (pc = "done" /\ completedSimulations = 0) =>
    /\ aggregated = InitialAggregate(decks, config, 0)
    /\ \A d \in Range(decks) :
         /\ aggregated.day1Counts[d] = 0
         /\ aggregated.day2Avg[d] = QInt(0)
         /\ aggregated.top8Avg[d] = QInt(0)
         /\ aggregated.top16Avg # <<>> => aggregated.top16Avg[1][d] = QInt(0)
         /\ aggregated.top32Avg # <<>> => aggregated.top32Avg[1][d] = QInt(0)

\* a batch of requested trials was cancelled at its first poll and returned
C12_Witness ==
  /\ pc = "done"
  /\ cancelledAt = 0
  /\ numSimulations >= 1
  /\ decks # <<>>
  /\ aggregated.top16Avg # <<>>

-----------------------------------------------------------------------------
(* runTournament with a configuration of few rounds.  The configuration is  *)
(* an argument of runTournament; with few rounds a pool of MaxPool players  *)
(* leaves players below the cutoff and Day-2 players who have not yet met.  *)

ShortConfigs ==
  {[day1Rounds |-> c[1], day2Rounds |-> c[2], day2Cutoff |-> c[3],
    topCutSize |-> 8] : c \in {<<1, 2, 3>>, <<2, 1, 3>>, <<2, 1, 6>>}}

InitDay2 ==
  /\ decks = DeckList
  /\ playRates = EvenRates
  /\ totalPlayers \in 1 .. MaxPool
  /\ matchupMap = <<>>
  /\ config \in ShortConfigs
  /\ pc = "create"
  /\ TrialIdle
  /\ ConfigIdle
  /\ AppIdle
  /\ BatchIdle

NextDay2 ==
  \/ CreatePlayers
  \/ RunTournament

SpecDay2 == InitDay2 /\ [][NextDay2]_vars

\* the ids that occur in the pairs
PairedIds(ps) == UNION {Range(ps[m]) : m \in 1 .. Len(ps)}

\* C13: the filter after the day1Rounds rounds keeps exactly the players with
\* match points >= day2Cutoff; during Day 2 a player below the cutoff keeps
\* its match points and history, and is never in a pair nor given a bye
C13_Day2Pool ==
  [][/\ (day = 1 /\ day' = 2) =>
          /\ round = config.day1Rounds
          /\ Range(day2Players') =
               {players[k].id : k \in {n \in 1 .. Len(players) :
                  players[n].matchPoints >= config.day2Cutoff}}
          /\ Len(day2Players') = Cardinality(Range(day2Players'))
     /\ day = 2 =>
          /\ Range(day2Players') = Range(day2Players)
          /\ \A k \in 1 .. Len(players) :
               players[k].id \notin Range(day2Players) =>
                 /\ players'[k] = players[k]
                 /\ players[k].matchPoints < config.day2Cutoff
                 /\ players[k].id \notin PairedIds(pairs')
                 /\ players[k].id \notin paired'
                 /\ players[k].id \notin byes']_vars

\* a Day-2 round has formed a pair while a player sits below the cutoff
C13_Witness ==
  /\ day = 2
  /\ pc = "play"
  /\ Len(pairs) >= 1
  /\ \E k \in 1 .. Len(players) : players[k].id \notin Range(day2Players)
  /\ \E k \in 1 .. Len(players) :
       /\ players[k].id \in Range(day2Players)
       /\ Len(players[k].opponents) = config.day1Rounds
       /\ players[k].matchPoints = config.day2Cutoff

-----------------------------------------------------------------------------
(* The filter, the sort and the slices of runTournament on their own:       *)
(* runTournament called with no round to play on players that already hold  *)
(* match points.  The field holds 21 points; one player may lead with 24    *)
(* and, in the smaller pools, a second player may hold 24 or sit at 18,     *)
(* below the cutoff.  The pools around the cut sizes 16 and 32 are included.*)

SlicePoolSizes == (0 .. MaxSlicePool) \cup {16, 17, 32, 33}

SecondOff(n) == IF n <= MaxSlicePool THEN 0 .. n ELSE {0}

Standing(n, a, b, pb) ==
  [k \in 1 .. n |->
     [id |-> k,
      deck |-> DeckList[(k % 2) + 1],
      matchPoints |-> IF k = b THEN pb ELSE IF k = a THEN 24 ELSE 21,
      opponents |-> <<>>]]

NoRounds(size) ==
  [day1Rounds |-> 0, day2Rounds |-> 0, day2Cutoff |-> Day2Cutoff,
   topCutSize |-> size]

InitExtract ==
  /\ decks = DeckList
  /\ playRates = EvenRates
  /\ \E n \in SlicePoolSizes :
       /\ totalPlayers = n
       /\ \E a \in 0 .. n, b \in SecondOff(n), pb \in {18, 24} :
            players = Standing(n, a, b, pb)
  /\ matchupMap = <<>>
  /\ config \in {NoRounds(size) : size \in {8, 16, 32}}
  /\ pc = "round"
  /\ day2Players = <<>>
  /\ day = 1
  /\ round = 0
  /\ RoundIdle
  /\ lastMatch = NoMatch
  /\ simResult = <<>>
  /\ ConfigIdle
  /\ AppIdle
  /\ BatchIdle

NextExtract ==
  \/ FilterDay2
  \/ ExtractTrial

SpecExtract == InitExtract /\ [][NextExtract]_vars

\* the players a snapshot counts
RECURSIVE SnapshotTotal(_, _)
SnapshotTotal(snapshot, ds) ==
  IF ds = {} THEN 0
  ELSE LET d == CHOOSE x \in ds : TRUE
       IN snapshot[d] + SnapshotTotal(snapshot, ds \ {d})

\* the snapshot counts the first min(size, n) players of the sorted Day-2
\* array, and nobody behind them has more match points than one of them
CutOf(snapshot, size) ==
  LET n == Len(day2Players)
      m == IF size <= n THEN size ELSE n
  IN /\ SnapshotTotal(snapshot, DOMAIN snapshot) = m
     /\ \A d \in DOMAIN snapshot \cup Range(decks) :
          SnapshotCount(snapshot, d) =
            Cardinality({j \in 1 .. m : ById(players, day2Players[j]).deck = d})
     /\ \A j \in 1 .. m : \A k \in m + 1 .. n :
          ById(players, day2Players[k]).matchPoints
            <= ById(players, day2Players[j]).matchPoints

\* C14: top8 counts exactly min(8, n) players of the n-player Day-2 pool and
\* no Day-2 player left out has more match points than one included;
\* likewise min(16, n) for top16 and min(32, n) for top32 when emitted
C14_TopCut ==
  pc = "returned" =>
    /\ Len(day2Players) = Cardinality(Range(day2Players))
    /\ CutOf(simResult[1].top8, 8)
    /\ simResult[1].top16 # <<>> => CutOf(simResult[1].top16[1], 16)
    /\ simResult[1].top32 # <<>> => CutOf(simResult[1].top32[1], 32)

\* a Day-2 pool of 17 whose last player leads: top8 and top16 both cut the
\* pool and both hold the leader
C14_Witness ==
  /\ pc = "returned"
  /\ Len(day2Players) = 17
  /\ simResult[1].top16 # <<>>
  /\ day2Players[1] = 17
  /\ ById(players, day2Players[17]).matchPoints
       < ById(players, day2Players[1]).matchPoints

-----------------------------------------------------------------------------
(* Claims about a batch with special inputs *)

\* every snapshot of a trial's results is empty
EmptyResults(res) ==
  /\ DOMAIN res.day1Players = {}
  /\ DOMAIN res.day2Players = {}
  /\ DOMAIN res.top8 = {}
  /\ res.top16 # <<>> => DOMAIN res.top16[1] = {}
  /\ res.top32 # <<>> => DOMAIN res.top32[1] = {}

\* C15: with an empty deck list and a positive entrant count createPlayers
\* returns no player, every snapshot runTournament returns is empty, and a
\* batch that is not cancelled completes every requested trial; nothing throws
C15_EmptyDecks ==
  (decks = <<>> /\ totalPlayers > 0) =>
    /\ players = <<>>
    /\ pc # "error"
    /\ simResult # <<>> => EmptyResults(simResult[1])
    /\ \A t \in 1 .. Len(trialResults) : EmptyResults(trialResults[t])
    /\ (pc = "done" /\ cancelledAt = -1) =>
         /\ completedSimulations = numSimulations
         /\ Len(trialResults) = numSimulations
         /\ aggregated.numSimulations = numSimulations

\* a batch without decks has completed its two requested trials
C15_Witness ==
  /\ decks = <<>>
  /\ pc = "done"
  /\ numSimulations = 2
  /\ completedSimulations = 2
  /\ config.topCutSize = 32

\* C16: within a batch the day1Players snapshot is the same in every trial,
\* whatever the shuffles and the match outcomes: the day1Counts taken from
\* trial 0, and reported in every progress snapshot, equal the Day-1 deck
\* count of every completed trial
C16_Day1Constant ==
  /\ \A t \in 1 .. Len(trialResults) :
       /\ trialResults[t].day1Players = trialResults[1].day1Players
       /\ aggregated.day1Counts = trialResults[t].day1Players
  /\ \A k \in 1 .. Len(progressCalls) :
       progressCalls[k].intermediate.day1Counts = trialResults[k].day1Players
  /\ simResult # <<>> /\ trialResults # <<>> =>
       simResult[1].day1Players = trialResults[1].day1Players

\* two trials of a two-deck pool have completed, the second seeded in another
\* order than the allocation order and won by the second player of the array
C16_Witness ==
  /\ pc = "done"
  /\ Len(trialResults) >= 2
  /\ Len(players) = 2
  /\ players[1].id = 2
  /\ players[2].matchPoints > players[1].matchPoints
  /\ DOMAIN aggregated.day1Counts = {"A", "B"}

-----------------------------------------------------------------------------
(* createPlayers with any integer as totalPlayers *)

InitCreateSigned ==
  /\ decks \in DeckLists
  /\ playRates \in [Range(decks) -> RateValues]
  /\ totalPlayers \in -MaxTotal .. MaxTotal
  /\ matchupMap = <<>>
  /\ config = calculateTournamentConfig(totalPlayers)
  /\ pc = "create"
  /\ TrialIdle
  /\ ConfigIdle
  /\ AppIdle
  /\ BatchIdle

NextCreateSigned == CreatePlayers

SpecCreateSigned == InitCreateSigned /\ [][NextCreateSigned]_vars

\* C17: createPlayers called with totalPlayers < 0 signals an error and
\* returns no player list
C17_NegativeFails ==
  (totalPlayers < 0 /\ pc # "create") => pc = "error"

-----------------------------------------------------------------------------
(* Claims about pairPlayers inside a trial *)

\* C19: within one pairPlayers call a player who was awarded a bye is in no
\* pair of that call
C19_ByeNoMatch == byes \cap PairedIds(pairs) = {}

\* C20: when a pair is formed the opponent's match points are at most the
\* match points of the player who initiated the pairing
C20_NeverPairUp ==
  [][Len(pairs') = Len(pairs) + 1 =>
       LET pair == pairs'[Len(pairs')]
       IN ById(players', pair[2]).matchPoints
            <= ById(players', pair[1]).matchPoints]_vars

\* a pair was formed with an opponent of a lower bracket
C20_Witness ==
  /\ pc \in {"pair", "play"}
  /\ \E m \in 1 .. Len(pairs) :
       /\ m >= matchNo
       /\ ById(players, pairs[m][2]).matchPoints
            < ById(players, pairs[m][1]).matchPoints

-----------------------------------------------------------------------------
(* Two calls of runMultipleSimulations on the same arguments: two players   *)
(* and one Day-1 round, whose winner alone reaches Day 2.  A call runs      *)
(* without interruption up to its next `await yieldToBrowser()` or to its   *)
(* return; there the other call may be started or resumed.  The locals of   *)
(* the call that is not running are kept in otherCall.                      *)

\* the locals and the position of the running call
Locals ==
  [pc |-> pc,
   numSimulations |-> numSimulations,
   hasOnProgress |-> hasOnProgress,
   hasShouldCancel |-> hasShouldCancel,
   i |-> i,
   completedSimulations |-> completedSimulations,
   aggregated |-> aggregated,
   trialsStarted |-> trialsStarted,
   cancelledAt |-> cancelledAt,
   trialResults |-> trialResults,
   progressCalls |-> progressCalls]

\* a call about to start: lines 260-284
NewCall(num, canCancel) ==
  [pc |-> "loop",
   numSimulations |-> num,
   hasOnProgress |-> FALSE,
   hasShouldCancel |-> canCancel,
   i |-> 0,
   completedSimulations |-> 0,
   aggregated |-> InitialAggregate(decks, config, num),
   trialsStarted |-> 0,
   cancelledAt |-> -1,
   trialResults |-> <<>>,
   progressCalls |-> <<>>]

\* OwnAggregate with `aggregated` declared at module level: the call that
\* takes the turn goes on with the object the other call was writing
SharedAggregate(own, current) == current

\* line 260: `aggregated` is a const of the call, so the call that takes the
\* turn finds its own object
OwnAggregate(own, current) == own

InitTwoCalls ==
  /\ decks = DeckList
  /\ playRates = EvenRates
  /\ totalPlayers = 2
  /\ matchupMap = <<>>
  /\ config \in {c \in ShortConfigs : c.day1Rounds = 1}
  /\ numSimulations \in 1 .. MaxSims
  /\ hasOnProgress = FALSE
  /\ hasShouldCancel \in BOOLEAN
  /\ i = 0
  /\ completedSimulations = 0
  /\ aggregated = InitialAggregate(decks, config, numSimulations)
  /\ trialsStarted = 0
  /\ cancelledAt = -1
  /\ trialResults = <<>>
  /\ progressCalls = <<>>
  /\ otherCall \in {NewCall(num, canCancel) :
                      num \in 1 .. MaxSims, canCancel \in BOOLEAN}
  /\ switches = 0
  /\ pc = "loop"
  /\ TrialIdle
  /\ ConfigIdle
  /\ AppIdle

\* line 370 or line 397: the running call awaits or has returned, and the
\* event loop gives the turn to the other call: it is started, or its timer
\* fires and its loop goes on with i++
SwitchCall ==
  /\ pc \in {"yield", "done"}
  /\ otherCall.pc # "done"
  /\ otherCall' = Locals
  /\ switches' = switches + 1
  /\ pc' = "loop"
  /\ numSimulations' = otherCall.numSimulations
  /\ hasOnProgress' = otherCall.hasOnProgress
  /\ hasShouldCancel' = otherCall.hasShouldCancel
  /\ i' = IF otherCall.pc = "yield" THEN otherCall.i + 1 ELSE otherCall.i
  /\ completedSimulations' = otherCall.completedSimulations
  /\ aggregated' = OwnAggregate(otherCall.aggregated, aggregated)
  /\ trialsStarted' = otherCall.trialsStarted
  /\ cancelledAt' = otherCall.cancelledAt
  /\ trialResults' = otherCall.trialResults
  /\ progressCalls' = otherCall.progressCalls
  /\ UNCHANGED <<inputVars, appVars, configVars, trialVars>>

NextTwoCalls ==
  \/ CancelBatch
  \/ StartTrial
  \/ LoopExit
  \/ CreatePlayers
  \/ RunTournament
  \/ AggregateTrial
  \/ ResumeBatch
  \/ FinishBatch
  \/ SwitchCall

SpecTwoCalls == InitTwoCalls /\ [][NextTwoCalls]_vars

\* the aggregate that the first n of the given trial results produce
RECURSIVE AccumulateAll(_, _, _)
AccumulateAll(agg, results, n) ==
  IF n = 0 THEN agg
  ELSE Accumulate(AccumulateAll(agg, results, n - 1), results[n], n - 1)

\* the aggregate a call returns is determined by its own trials
FromOwnTrials(call) ==
  call.aggregated =
    FinalAggregate(
      AccumulateAll(InitialAggregate(decks, config, call.numSimulations),
                    call.trialResults, Len(call.trialResults)),
      decks, Len(call.trialResults))

\* a trial that has not played yet holds totalPlayers players of 0 match
\* points and empty history
FreshTrial ==
  (pc = "round" /\ day = 1 /\ round = 0) =>
    /\ Len(players) = totalPlayers
    /\ \A k \in 1 .. Len(players) :
         /\ players[k].matchPoints = 0
         /\ players[k].opponents = <<>>

\* C18: every trial starts with players of 0 match points and empty
\* histories whatever earlier trials did, no step modifies the matchup map,
\* and each of two calls interleaved at their yields returns the aggregate
\* of its own trials
C18_NoSharedState ==
  /\ [](/\ FreshTrial
        /\ pc = "done" => FromOwnTrials(Locals)
        /\ otherCall.pc = "done" => FromOwnTrials(otherCall))
  /\ [][matchupMap' = matchupMap]_vars

\* both calls have returned after taking turns at their yields, with
\* different aggregates
C18_Witness ==
  /\ pc = "done"
  /\ otherCall.pc = "done"
  /\ switches >= 3
  /\ completedSimulations = 2
  /\ otherCall.completedSimulations = 2
  /\ aggregated.day2Avg # otherCall.aggregated.day2Avg

-----------------------------------------------------------------------------
(* Claims about the bracket scan and the bye of pairPlayers *)

\* the players of bracket mp who are unpaired, are not the player and are
\* not in the player's history, in the current state
ValidIn(player, mp) ==
  {id \in Range(mpGroups[mp]) : /\ id \notin paired
                                 /\ id # player.id
                                 /\ id \notin Range(player.opponents)}

\* no bracket at or below the player's score holds a valid candidate
NoCandidate(player) ==
  \A mp \in DOMAIN mpGroups :
    mp <= player.matchPoints => ValidIn(player, mp) = {}

\* C21: when an unpaired player is paired with an opponent of bracket b, the
\* opponent is a valid candidate and no bracket above b and at or below the
\* player's score holds a valid candidate at that moment
C21_HighestBracket ==
  [][Len(pairs') = Len(pairs) + 1 =>
       LET pair == pairs'[Len(pairs')]
           player == ById(players, pair[1])
           b == CHOOSE mp \in DOMAIN mpGroups : pair[2] \in Range(mpGroups[mp])
       IN /\ pair[1] = Pool[idx]
          /\ pair[1] \notin paired
          /\ b <= player.matchPoints
          /\ pair[2] \in ValidIn(player, b)
          /\ \A mp \in DOMAIN mpGroups :
               (b < mp /\ mp <= player.matchPoints)
                 => ValidIn(player, mp) = {}]_vars

\* the last pair took its opponent from the player's own bracket while a
\* lower bracket still holds an unpaired player the initiator has not met
C21_Witness ==
  /\ pc = "pair"
  /\ pairs # <<>>
  /\ LET pair == pairs[Len(pairs)]
         player == ById(players, pair[1])
     IN \E mp \in DOMAIN mpGroups :
          /\ pair[2] \notin Range(mpGroups[mp])
          /\ mp < player.matchPoints
          /\ ValidIn(player, mp) # {}

\* C22: a player processed while unpaired receives a bye exactly when no
\* bracket at or below its score holds a valid candidate; the bye adds 3
\* match points and one entry 0 to that player's history, and no step of
\* pairPlayers changes any other player's points or history
C22_Bye ==
  [][pc = "pair" =>
       LET k == IndexOf(players, Pool[idx])
           bye == Pool[idx] \notin paired /\ NoCandidate(players[k])
       IN /\ bye <=> byes' = byes \cup {Pool[idx]} /\ byes' # byes
          /\ bye => /\ players'[k].matchPoints = players[k].matchPoints + 3
                    /\ players'[k].opponents = Append(players[k].opponents, 0)
                    /\ players'[k].id = players[k].id
                    /\ players'[k].deck = players[k].deck
                    /\ pairs' = pairs
          /\ ~bye => players'[k] = players[k]
          /\ \A n \in 1 .. Len(players) : n # k => players'[n] = players[n]
          /\ Len(players') = Len(players)]_vars

\* a call has given a bye and formed a pair
C22_Witness ==
  /\ byes # {}
  /\ pairs # <<>>
  /\ \E id \in byes :
       /\ ById(players, id).matchPoints >= 3
       /\ ById(players, id).opponents[Len(ById(players, id).opponents)] = 0

-----------------------------------------------------------------------------
(* Claims about the allocation of createPlayers *)

\* the number of players of the returned array that play deck d
DeckCount(d) == Cardinality({k \in 1 .. Len(players) : players[k].deck = d})

\* the position in the deck list of the first deck with the largest rounded
\* allocation
FirstLargest ==
  CHOOSE k \in 1 .. Len(decks) :
    LET counts == RoundedCounts(decks, playRates, totalPlayers)
    IN /\ \A n \in 1 .. Len(decks) : counts[decks[n]] <= counts[decks[k]]
       /\ \A n \in 1 .. k - 1 : counts[decks[n]] < counts[decks[k]]

\* the rounded allocations do not sum to totalPlayers
Drift == Assigned(decks, playRates, totalPlayers) # totalPlayers

\* C23: when the rounded allocations do not sum to totalPlayers, the signed
\* difference is added to the first deck in list order among those with the
\* largest rounded allocation, and every other deck receives exactly
\* round(totalPlayers * rate / 100) players
C23_Adjustment ==
  (pc = "round" /\ Drift) =>
    LET counts == RoundedCounts(decks, playRates, totalPlayers)
        diff == totalPlayers - Assigned(decks, playRates, totalPlayers)
        adjusted == counts[decks[FirstLargest]] + diff
    IN /\ PlayerCounts(decks, playRates, totalPlayers)[decks[FirstLargest]]
            = adjusted
       /\ DeckCount(decks[FirstLargest])
            = (IF adjusted > 0 THEN adjusted ELSE 0)
       /\ \A k \in 1 .. Len(decks) :
            k # FirstLargest =>
              /\ PlayerCounts(decks, playRates, totalPlayers)[decks[k]]
                   = counts[decks[k]]
              /\ DeckCount(decks[k]) = counts[decks[k]]

\* createPlayers has returned after an adjustment, two decks share the largest
\* rounded allocation and a deck other than the adjusted one has players
C23_Witness ==
  /\ pc = "round"
  /\ Drift
  /\ LET counts == RoundedCounts(decks, playRates, totalPlayers)
     IN \E k \in 1 .. Len(decks) :
          /\ k # FirstLargest
          /\ counts[decks[k]] = counts[decks[FirstLargest]]
          /\ DeckCount(decks[k]) > 0
          /\ DeckCount(decks[FirstLargest]) # DeckCount(decks[k])

-----------------------------------------------------------------------------
(* Claims about the tie branch of playMatch *)

\* C25: with exact arithmetic the tie rate of line 168 is 0 for every row, so
\* no playMatch call gives 1 point to each player, and every player's match
\* points are a multiple of 3 in every state of a trial
C25_NoTies ==
  /\ [](\A k \in 1 .. Len(players) : players[k].matchPoints % 3 = 0)
  /\ [][MatchPending =>
          <<Gain(PendingP1), Gain(PendingP2)>> \in {<<3, 0>>, <<0, 3>>}]_vars

\* a match was resolved in the probability branch from a row that holds both
\* wins and losses
C25_Witness ==
  /\ lastMatch.path = "probability"
  /\ \E key \in DOMAIN matchupMap :
       matchupMap[key].wins > 0 /\ matchupMap[key].losses > 0
  /\ \E k \in 1 .. Len(players) : players[k].matchPoints > 0

-----------------------------------------------------------------------------
(* Claims about the returned aggregate and the progress snapshots *)

\* the snapshot of the last onProgress invocation
LastSnapshot == progressCalls[Len(progressCalls)].intermediate

\* C27: with a progress callback and at least one completed trial, the
\* returned aggregate equals the snapshot of the last progress invocation in
\* numSimulations, day1Counts, every average and both conversion rates,
\* whether the batch ran to completion or was cancelled
C27_LastSnapshot ==
  (pc = "done" /\ hasOnProgress /\ completedSimulations > 0) =>
    /\ progressCalls # <<>>
    /\ aggregated.numSimulations = LastSnapshot.numSimulations
    /\ aggregated.day1Counts = LastSnapshot.day1Counts
    /\ aggregated.day2Avg = LastSnapshot.day2Avg
    /\ aggregated.top8Avg = LastSnapshot.top8Avg
    /\ aggregated.top16Avg = LastSnapshot.top16Avg
    /\ aggregated.top32Avg = LastSnapshot.top32Avg
    /\ aggregated.day2ConversionRate = LastSnapshot.day2ConversionRate
    /\ aggregated.top8ConversionRate = LastSnapshot.top8ConversionRate

\* a batch with a callback was cancelled after its first trial and returned
\* an aggregate in which some deck has a Day-2 average above 0
C27_Witness ==
  /\ pc = "done"
  /\ hasOnProgress
  /\ cancelledAt = 1
  /\ numSimulations = 2
  /\ \E d \in Range(decks) : QPositive(aggregated.day2Avg[d])


\* the number of players createPlayers allocates to deck d
Allocated(d) ==
  LET n == PlayerCounts(decks, playRates, totalPlayers)[d]
  IN IF n > 0 THEN n ELSE 0

\* C28: after at least one completed trial, the day1Counts of the aggregate
\* and of every progress snapshot holds an entry for every deck of the deck
\* list, equal to the number of players allocated to it, 0 included
C28_Day1Entries ==
  completedSimulations > 0 =>
    /\ \A d \in Range(decks) :
         /\ d \in DOMAIN aggregated.day1Counts
         /\ aggregated.day1Counts[d] = Allocated(d)
    /\ \A k \in 1 .. Len(progressCalls) :
         \A d \in Range(decks) :
           /\ d \in DOMAIN progressCalls[k].intermediate.day1Counts
           /\ progressCalls[k].intermediate.day1Counts[d] = Allocated(d)

-----------------------------------------------------------------------------
(* Batches in which a deck loses players at each cut line.  Either the     *)
(* batch starts at its first poll with a configuration of one Day-1 round  *)
(* and a cutoff of one win, so that the loser of a match stays out of      *)
(* Day 2; or it asks for one trial, and that trial is at the filter of     *)
(* runTournament with nine or ten players who hold match points, so that   *)
(* the top-8 slice leaves Day-2 players out.                               *)

OneRound ==
  [day1Rounds |-> 1, day2Rounds |-> 0, day2Cutoff |-> WinPoints,
   topCutSize |-> 8]

RatePoolSizes == {9, 10}

InitRatesBatch ==
  /\ totalPlayers \in 2 .. MaxPlayers
  /\ config = OneRound
  /\ numSimulations \in 0 .. MaxSims
  /\ trialsStarted = 0
  /\ pc = "loop"
  /\ TrialIdle

InitRatesSlice ==
  /\ \E n \in RatePoolSizes :
       /\ totalPlayers = n
       /\ \E a \in 0 .. n, b \in 0 .. n, pb \in {18, 24} :
            players = Standing(n, a, b, pb)
  /\ config \in {NoRounds(size) : size \in {8, 16}}
  /\ numSimulations = 1
  /\ trialsStarted = 1
  /\ pc = "round"
  /\ day2Players = <<>>
  /\ day = 1
  /\ round = 0
  /\ RoundIdle
  /\ lastMatch = NoMatch
  /\ simResult = <<>>

InitRates ==
  /\ decks = DeckList
  /\ playRates = EvenRates
  /\ matchupMap = (<<"B", "A">> :> Row("B", "A", 3, 1))
  /\ InitRatesBatch \/ InitRatesSlice
  /\ hasOnProgress \in BOOLEAN
  /\ hasShouldCancel \in BOOLEAN
  /\ i = 0
  /\ completedSimulations = 0
  /\ aggregated = InitialAggregate(decks, config, numSimulations)
  /\ cancelledAt = -1
  /\ trialResults = <<>>
  /\ progressCalls = <<>>
  /\ otherCall = NoBatch
  /\ switches = 0
  /\ ConfigIdle
  /\ AppIdle

SpecRates == InitRates /\ [][NextBatch]_vars

\* the count of deck d in a snapshot; a deck without players has no key
Cnt(snapshot, d) == IF d \in DOMAIN snapshot THEN snapshot[d] ELSE 0

\* the fraction q lies within [0, 100]
InRange(q) == q[2] > 0 /\ 0 <= q[1] /\ q[1] <= 100 * q[2]

\* a holds for every deck two rates within [0, 100], and a rate is 0 when
\* its denominator is 0
RatesOk(a) ==
  \A d \in Range(decks) :
    /\ d \in DOMAIN a.day2ConversionRate
    /\ d \in DOMAIN a.top8ConversionRate
    /\ InRange(a.day2ConversionRate[d])
    /\ InRange(a.top8ConversionRate[d])
    /\ Cnt(a.day1Counts, d) = 0 => a.day2ConversionRate[d] = QInt(0)
    /\ a.day2Avg[d] = QInt(0) => a.top8ConversionRate[d] = QInt(0)

\* per trial a deck's top-8 count is at most its Day-2 count, which is at
\* most its Day-1 count
CutsDecrease ==
  \A k \in 1 .. Len(trialResults) :
    \A d \in Range(decks) :
      /\ Cnt(trialResults[k].top8, d) <= Cnt(trialResults[k].day2Players, d)
      /\ Cnt(trialResults[k].day2Players, d)
           <= Cnt(trialResults[k].day1Players, d)

\* C26: for every deck, every intermediate snapshot and the final aggregate
\* of a batch with at least one completed trial have both conversion rates
\* within [0, 100]; per trial the top-8 count is at most the Day-2 count,
\* which is at most the Day-1 count, and a rate is 0 when its denominator
\* is 0
C26_Rates ==
  /\ CutsDecrease
  /\ \A k \in 1 .. Len(progressCalls) : RatesOk(progressCalls[k].intermediate)
  /\ (pc = "done" /\ completedSimulations > 0) => RatesOk(aggregated)

\* C26 as stated, for the final aggregate of every batch: a batch that
\* completed no trial returns rate maps without an entry for any deck
C26_AnyBatch ==
  /\ CutsDecrease
  /\ \A k \in 1 .. Len(progressCalls) : RatesOk(progressCalls[k].intermediate)
  /\ pc = "done" => RatesOk(aggregated)

\* a returned aggregate in which a deck converts a part of its Day-1 players
\* to Day 2 and a part of its Day-2 players to the top 8
C26_Witness ==
  /\ pc = "done"
  /\ hasOnProgress
  /\ completedSimulations > 0
  /\ \E d \in Range(decks) :
       /\ QPositive(aggregated.day2ConversionRate[d])
       /\ aggregated.day2ConversionRate[d] # QInt(100)
       /\ QPositive(aggregated.top8ConversionRate[d])
       /\ aggregated.top8ConversionRate[d] # QInt(100)

-----------------------------------------------------------------------------
(* App: the Run and Cancel buttons around a batch.  A handler runs between  *)
(* two steps of the batch only where the batch has given up the thread: at  *)
(* the timer of handleRunSimulation and at the yield after each trial.      *)
(* pc = "app" is the mounted component with no simulation running.          *)

InitApp ==
  /\ decks = DeckList
  /\ playRates = EvenRates
  /\ totalPlayers \in 0 .. BatchPlayers
  /\ matchupMap = (<<"B", "A">> :> Row("B", "A", 3, 1))
  /\ config = calculateTournamentConfig(totalPlayers)
  /\ numSimulations \in 0 .. MaxSims
  /\ hasOnProgress = TRUE
  /\ hasShouldCancel = TRUE
  /\ i = 0
  /\ completedSimulations = 0
  /\ aggregated = InitialAggregate(decks, config, numSimulations)
  /\ trialsStarted = 0
  /\ cancelledAt = -1
  /\ trialResults = <<>>
  /\ progressCalls = <<>>
  /\ otherCall = NoBatch
  /\ switches = 0
  /\ pc = "app"
  /\ TrialIdle
  /\ ConfigIdle
  /\ AppIdle

\* lines 115-127: the click on Run, enabled by line 203 only while no
\* simulation runs; the handler of this render holds this render's
\* shouldCancelSimulation, and line 152 builds the predicate from it
HandleRunSimulation ==
  /\ pc = "app"
  /\ ~isSimulating
  /\ numSimulations >= 1
  /\ totalPlayers >= 1
  /\ isSimulating' = TRUE
  /\ shouldCancelSimulation' = FALSE
  /\ closureCancel' = shouldCancelSimulation
  /\ cancelPressedAt' = -1
  /\ pc' = "timer"
  /\ UNCHANGED <<inputVars, configVars, otherVars, trialVars, batchVars>>

\* lines 130-153: the timer fires; the callback computes the configuration
\* and calls runMultipleSimulations with both callbacks (lines 260-284)
StartSimulation ==
  /\ pc = "timer"
  /\ config' = calculateTournamentConfig(totalPlayers)
  /\ hasOnProgress' = TRUE
  /\ hasShouldCancel' = TRUE
  /\ i' = 0
  /\ completedSimulations' = 0
  /\ aggregated' = InitialAggregate(decks, config', numSimulations)
  /\ trialsStarted' = 0
  /\ cancelledAt' = -1
  /\ trialResults' = <<>>
  /\ progressCalls' = <<>>
  /\ pc' = "loop"
  /\ UNCHANGED <<decks, playRates, totalPlayers, matchupMap, appVars,
                 configVars, otherVars, trialVars, numSimulations>>

\* lines 168-170: the click on Cancel, a button that lines 269-271 render
\* only while isSimulating
HandleCancelSimulation ==
  /\ isSimulating
  /\ pc \in {"timer", "yield"}
  /\ shouldCancelSimulation' = TRUE
  /\ cancelPressedAt' =
       IF cancelPressedAt = -1 THEN completedSimulations ELSE cancelPressedAt
  /\ UNCHANGED <<inputVars, configVars, otherVars, trialVars, batchVars, pc,
                 isSimulating, closureCancel>>

\* lines 287-293 with the predicate of line 152: shouldCancel() returns the
\* value the closure holds
PollClosure ==
  /\ pc = "loop"
  /\ i < numSimulations
  /\ IF closureCancel
       THEN /\ cancelledAt' = i
            /\ pc' = "finish"
            /\ UNCHANGED trialsStarted
       ELSE /\ trialsStarted' = trialsStarted + 1
            /\ pc' = "create"
            /\ UNCHANGED cancelledAt
  /\ UNCHANGED <<inputVars, appVars, configVars, otherVars, trialVars,
                 numSimulations, hasOnProgress, hasShouldCancel, i,
                 completedSimulations, aggregated, trialResults,
                 progressCalls>>

\* lines 155-163: the batch has returned; the results are stored and the
\* finally block resets the state
FinishSimulation ==
  /\ pc = "done"
  /\ isSimulating
  /\ isSimulating' = FALSE
  /\ shouldCancelSimulation' = FALSE
  /\ pc' = "app"
  /\ UNCHANGED <<inputVars, configVars, otherVars, trialVars, batchVars,
                 closureCancel, cancelPressedAt>>

NextApp ==
  \/ HandleRunSimulation
  \/ StartSimulation
  \/ HandleCancelSimulation
  \/ PollClosure
  \/ LoopExit
  \/ CreatePlayers
  \/ RunTournament
  \/ AggregateTrial
  \/ ResumeBatch
  \/ FinishBatch
  \/ FinishSimulation

SpecApp == InitApp /\ [][NextApp]_vars

\* C24: when Cancel is pressed while the batch is between two trials and
\* has trials left to start, a later poll returns true, and the batch
\* returns before it has completed every requested trial
C24_CancelStops ==
  (pc = "done" /\ cancelPressedAt >= 1 /\ cancelPressedAt < numSimulations)
    => /\ cancelledAt >= cancelPressedAt
       /\ completedSimulations < numSimulations

====
